---- MODULE Spec2Model ----
\* Robocop: the disabler engine (robocop/utils/disablers.py), the scan pipeline and
\* the rule registry (robocop/run.py), modelled as state machines.
EXTENDS Integers, Sequences, FiniteSets, TLC

VARIABLES
    \* --- one DisablersFinder under construction (disablers.py) ---
    source,       \* the lines of the file read so far by enumerate(file, start=1)
    lineno,       \* _parse_file's loop variable
    finder,       \* the DisablersFinder object
    dpc,          \* position inside DisablersFinder.__init__ / _parse_file
    \* --- the Robocop object (run.py) ---
    config,       \* self.config, as far as run.py reads it
    rules,        \* self.rules: rule name / rule id -> (rule, checker)
    checkers,     \* self.checkers
    lastCall,     \* the last register_checker call: its argument, the registry before it, its outcome
    reports,      \* self.reports
    disabler,     \* self.disabler, and the file it was built from
    disk,         \* the discovered files as they are on disk, once read: name, imports, text
    files,        \* run_checks' `files`: path -> RobotFile (type, scanned_with_type)
    parsed_files, \* run_checks' `parsed_files` (keys in insertion order)
    imported,     \* the files a resource import of another visited file refers to
    idx,          \* [i, k, j]: the file of the main loop, the checker of the scan loop, the file of the re-scan loop
    scans,        \* every scan_file call made so far: [file, checker, grammar, pass] -> count
    lastReport,   \* the last Robocop.report call: the finding and what the call did
    rpc,          \* position inside Robocop.__init__ / Robocop.run
    cpc,          \* configure_checkers_or_reports: the directive its loop is at, what it raised
    lastConfig,   \* the last directive the loop took: the directive, the state before it, what it raised
    accepted,     \* the findings Robocop.report handed to add_message of the reports, in order
    output        \* what the get_report calls of the last make_reports returned

disVars == <<source, lineno, finder, dpc>>
regVars == <<config, rules, checkers, lastCall>>
runVars == <<reports, disabler, disk, files, parsed_files, imported, idx, scans, lastReport, rpc>>
cfgVars == <<cpc, lastConfig>>
outVars == <<accepted, output>>
vars == <<source, lineno, finder, dpc, config, rules, checkers, lastCall, reports, disabler, disk, files, parsed_files, imported, idx, scans, lastReport, rpc, cpc, lastConfig, accepted, output>>

-----------------------------------------------------------------------------
\* Bounds of the model.
MaxLines == 3
MaxCalls == 3
MaxDirectives == 2
MaxFindings == 4
NFiles == 2

\* The rules findings are reported for: rule id (msg_id) and rule name.
RuleIdA == "0101"
RuleNameA == "rule-a"
RuleIdB == "0202"
RuleNameB == "rule-b"
Msgs == { [msg_id |-> RuleIdA, name |-> RuleNameA], [msg_id |-> RuleIdB, name |-> RuleNameB] }

\* What group('rules') of disabler_pattern can hold, after split(','); <<>> is the
\* empty group (a bare "disable" / "enable").
RuleLists == { <<>>, <<"all">>, <<RuleIdA>>, <<RuleNameA>>, <<RuleIdB>>, <<RuleIdA, RuleIdB>> }

\* A line of a file, by what _parse_file and _parse_line read of it:
\*   hash      : '#' in line
\*   statement : the text before the first '#' ("" for a standalone comment line)
\*   disabler  : group('disabler') of disabler_pattern.search(comment), "none" = no match
\*   rules     : group('rules') split at ','
PlainLine == [hash |-> FALSE, statement |-> "Log", disabler |-> "none", rules |-> <<>>]
CommentLines == [hash : {TRUE}, statement : {"", "Log"}, disabler : {"none"}, rules : {<<>>}]
DirectiveLines == [hash : {TRUE}, statement : {"", "Log"}, disabler : {"disable", "enable"}, rules : RuleLists]
Lines == {PlainLine} \cup CommentLines \cup DirectiveLines

-----------------------------------------------------------------------------
\* DisablersInFile objects. `lines` and `blocks` are references into the finder's
\* heap of set / list objects; `lastblock` is a plain int.
ProtoRef == 0

\* DisablersInFile.__init__: the one instance built at DisablersFinder.__init__
\* (defaultdict(DisablersInFile().copy)), with its set and list objects.
DisablersInFile == [lastblock |-> -1, lines |-> ProtoRef, blocks |-> ProtoRef]

\* DisablersInFile.copy: copy(self), a shallow copy: the new object holds the
\* prototype's lastblock and the SAME lines set and blocks list objects.
DisablersInFile_copy == [lastblock |-> DisablersInFile.lastblock, lines |-> DisablersInFile.lines, blocks |-> DisablersInFile.blocks]

\* DisablersFinder.__init__ up to the call of _parse_file.
\*   keys  : the keys of self.rules in insertion order (dict iteration order)
\*   rules : self.rules
\*   sets / lists : the heap of set and list objects the DisablersInFile objects refer to
NewFinder == [file_disabled |-> FALSE, any_disabler |-> FALSE, keys |-> <<>>, rules |-> <<>>, sets |-> (ProtoRef :> {}), lists |-> (ProtoRef :> <<>>)]

InRules(d, rule) == rule \in DOMAIN d.rules

\* self.rules[rule] of the defaultdict: a missing key is created by the factory.
Touch(d, rule) == IF InRules(d, rule) THEN d ELSE [d EXCEPT !.keys = Append(@, rule), !.rules = @ @@ (rule :> DisablersInFile_copy)]

\* DisablersFinder._add_inline_disabler
_add_inline_disabler(d, rule, n) == LET t == Touch(d, rule) IN [t EXCEPT !.sets[t.rules[rule].lines] = @ \cup {n}]

\* DisablersFinder._start_block
_start_block(d, rule, n) == LET t == Touch(d, rule) IN IF t.rules[rule].lastblock = -1 THEN [t EXCEPT !.rules[rule].lastblock = n] ELSE t

\* DisablersFinder._end_block, lines 110-115: the rule's own block.
_end_block_own(d, rule, n) ==
    IF ~InRules(d, rule) THEN d
    ELSE IF d.rules[rule].lastblock # -1
         THEN [d EXCEPT !.rules[rule].lastblock = -1, !.lists[d.rules[rule].blocks] = Append(@, <<d.rules[rule].lastblock, n>>)]
         ELSE d

\* DisablersFinder._end_all_blocks: every key but 'all', in dict order, from index i on.
RECURSIVE _end_all_blocks(_, _, _)
_end_all_blocks(d, n, i) ==
    IF i > Len(d.keys) THEN d
    ELSE IF d.keys[i] = "all" THEN _end_all_blocks(d, n, i + 1)
    ELSE _end_all_blocks(_end_block_own(d, d.keys[i], n), n, i + 1)

\* DisablersFinder._end_block
_end_block(d, rule, n) ==
    IF ~InRules(d, rule) THEN d
    ELSE LET own == _end_block_own(d, rule, n) IN IF rule = "all" THEN _end_all_blocks(own, n, 1) ELSE own

\* The for loops of _parse_line over `rules`, from index i on.
RECURSIVE ForDisable(_, _, _, _, _)
ForDisable(d, names, block, n, i) ==
    IF i > Len(names) THEN d
    ELSE ForDisable(IF block THEN _start_block(d, names[i], n) ELSE _add_inline_disabler(d, names[i], n), names, block, n, i + 1)

RECURSIVE ForEnable(_, _, _, _)
ForEnable(d, names, n, i) == IF i > Len(names) THEN d ELSE ForEnable(_end_block(d, names[i], n), names, n, i + 1)

\* DisablersFinder._parse_line
_parse_line(d, line, n) ==
    IF line.disabler = "none" THEN d
    ELSE LET names == IF line.rules = <<>> THEN <<"all">> ELSE line.rules
             block == (line.statement = "")
         IN  IF line.disabler = "disable" THEN ForDisable(d, names, block, n, 1)
             ELSE IF line.disabler = "enable" /\ block THEN ForEnable(d, names, n, 1)
             ELSE d

\* DisablersFinder._is_file_disabled
_is_file_disabled(d, last_line) ==
    IF ~InRules(d, "all") THEN FALSE
    ELSE IF Len(d.lists[d.rules["all"].blocks]) # 1 THEN FALSE
    ELSE d.lists[d.rules["all"].blocks][1] = <<0, last_line>>

\* DisablersFinder.is_line_disabled
is_line_disabled(d, line, rule) ==
    \/ line \in d.sets[d.rules[rule].lines]
    \/ \E i \in 1..Len(d.lists[d.rules[rule].blocks]) : d.lists[d.rules[rule].blocks][i][1] <= line /\ line <= d.lists[d.rules[rule].blocks][i][2]

\* DisablersFinder.is_msg_disabled; msg = [msg_id, name, line]
is_msg_disabled(d, msg) ==
    IF ~d.any_disabler THEN FALSE
    ELSE IF InRules(d, "all") /\ is_line_disabled(d, msg.line, "all") THEN TRUE
    ELSE IF InRules(d, msg.msg_id) /\ is_line_disabled(d, msg.line, msg.msg_id) THEN TRUE
    ELSE IF InRules(d, msg.name) /\ is_line_disabled(d, msg.line, msg.name) THEN TRUE
    ELSE FALSE

\* The body of the for loop of _parse_file (lines 62-63).
ParseFileStep(d, line, n) == IF line.hash THEN _parse_line(d, line, n) ELSE d

\* The tail of _parse_file after the for loop (lines 64-66).
ParseFileEnd(d, n) ==
    LET e == _end_block(d, "all", n)
    IN  [e EXCEPT !.file_disabled = _is_file_disabled(e, n), !.any_disabler = (Len(e.keys) # 0)]

\* One iteration of `for lineno, line in enumerate(file, start=1)`.
ReadLine(line) ==
    /\ dpc = "reading"
    /\ Len(source) < MaxLines
    /\ source' = Append(source, line)
    /\ lineno' = Len(source) + 1
    /\ finder' = ParseFileStep(finder, line, Len(source) + 1)
    /\ dpc' = "reading"
    /\ UNCHANGED <<outVars, cfgVars, regVars, runVars>>

\* The file is exhausted: lines 64-66.
EndOfFile ==
    /\ dpc = "reading"
    /\ finder' = ParseFileEnd(finder, lineno)
    /\ dpc' = "parsed"
    /\ UNCHANGED <<outVars, cfgVars, source, lineno, regVars, runVars>>

\* The except clause as a `finally`: the tail of _parse_file runs after the error.
ReadFails_finalizes ==
    /\ dpc = "reading"
    /\ finder' = ParseFileEnd(finder, lineno)
    /\ dpc' = "oserror"
    /\ UNCHANGED <<outVars, cfgVars, source, lineno, regVars, runVars>>
\* open() or a read raises OSError: the except clause, `pass`.
ReadFails ==
    /\ dpc = "reading"
    /\ dpc' = "oserror"
    /\ UNCHANGED <<outVars, cfgVars, source, lineno, finder, regVars, runVars>>

NextFinder ==
    \/ \E line \in Lines : ReadLine(line)
    \/ EndOfFile
    \/ ReadFails

\* No register_checker call made yet, no report call made yet, self.disabler = None.
NoCall == [made |-> FALSE, n |-> 0]
NoReport == [made |-> FALSE]
NoDisabler == [file |-> 0]
\* configure_checkers_or_reports not entered; no directive taken yet.
NoConfigure == [i |-> 0, raised |-> "none"]
NoDirective == [made |-> FALSE]
\* make_reports not called since the last finding.
NoOutput == [made |-> FALSE]

\* A DisablersFinder is constructed; no Robocop run is under way.
InitFinderOnly ==
    /\ source = <<>> /\ lineno = -1 /\ finder = NewFinder /\ dpc = "reading"
    /\ config = [include |-> {}, reports |-> {}]
    /\ rules = <<>> /\ checkers = <<>> /\ lastCall = NoCall
    /\ reports = <<>> /\ disabler = NoDisabler /\ disk = <<>> /\ files = <<>> /\ parsed_files = <<>> /\ imported = {}
    /\ idx = [i |-> 0, k |-> 0, j |-> 0] /\ scans = <<>> /\ lastReport = NoReport /\ rpc = "idle"
    /\ cpc = NoConfigure /\ lastConfig = NoDirective /\ accepted = <<>> /\ output = NoOutput

SpecFinder == InitFinderOnly /\ [][NextFinder]_vars

-----------------------------------------------------------------------------
\* Vocabulary of the properties of the disabler engine.

\* The rule keys a directive line names ('all' for a bare directive).
Names(l) == IF l.rules = <<>> THEN {"all"} ELSE {l.rules[i] : i \in DOMAIN l.rules}
IsDirective(l) == l.hash /\ l.disabler # "none"
\* A standalone comment line `# robocop: <kind>=...` naming key k.
Standalone(l, kind, k) == l.hash /\ l.statement = "" /\ l.disabler = kind /\ k \in Names(l)
\* A directive after a statement on the same line.
Inline(l, kind, k) == l.hash /\ l.statement # "" /\ l.disabler = kind /\ k \in Names(l)
LineNos == 1..Len(source)
\* A finding of rule m at line n.
Finding(m, n) == [msg_id |-> m.msg_id, name |-> m.name, line |-> n]
KeysOf(m) == {m.msg_id, m.name}
BlocksOf(k) == IF InRules(finder, k) THEN {finder.lists[finder.rules[k].blocks][i] : i \in DOMAIN finder.lists[finder.rules[k].blocks]} ELSE {}
\* Line s opens a block for key k: a standalone disable naming k, none before it.
OpensBlock(k, s) == Standalone(source[s], "disable", k) /\ \A j \in 1..(s - 1) : ~Standalone(source[j], "disable", k)
\* No directive of the file, outside the lines of S, names a key of rule m or 'all'.
NoOtherDirective(m, S) == \A j \in LineNos \ S : IsDirective(source[j]) => Names(source[j]) \cap (KeysOf(m) \cup {"all"}) = {}

\* C1 (as claimed): cascade on enable=all. Rule A's block opened by a standalone
\* disable=A at line s, never closed by a standalone enable=A, is closed as (s, e) by
\* the first standalone enable=all (or bare enable) at line e > s, also when the file
\* holds no disable for 'all'; findings of A at s..e are then suppressed, and those
\* after e are not (no other directive naming A or all in the file).
C1_CascadeOnEnableAll ==
    dpc = "parsed" =>
        \A m \in Msgs : \A k \in KeysOf(m) : \A s \in LineNos : \A e \in LineNos :
            ( /\ s < e
              /\ OpensBlock(k, s)
              /\ \A j \in (s + 1)..Len(source) : ~Standalone(source[j], "enable", k)
              /\ Standalone(source[e], "enable", "all")
              /\ \A j \in (s + 1)..(e - 1) : ~Standalone(source[j], "enable", "all") )
            => /\ <<s, e>> \in BlocksOf(k)
               /\ \A n \in s..e : is_msg_disabled(finder, Finding(m, n))
               /\ NoOtherDirective(m, {s, e}) => \A n \in (e + 1)..(Len(source) + 1) : ~is_msg_disabled(finder, Finding(m, n))

\* C2 (as claimed): no dangling block at end of file. After a readable file is parsed
\* every rule key has lastblock = -1, and a standalone disable=A at line s never
\* followed by a standalone enable for A or all is the closed block (s, last line),
\* so findings of A at s..last are suppressed.
C2_NoDanglingBlock ==
    dpc = "parsed" =>
        /\ \A k \in DOMAIN finder.rules : finder.rules[k].lastblock = -1
        /\ \A m \in Msgs : \A k \in KeysOf(m) : \A s \in LineNos :
            ( /\ OpensBlock(k, s)
              /\ \A j \in (s + 1)..Len(source) : ~Standalone(source[j], "enable", k) /\ ~Standalone(source[j], "enable", "all") )
            => /\ <<s, Len(source)>> \in BlocksOf(k)
               /\ \A n \in s..Len(source) : is_msg_disabled(finder, Finding(m, n))

\* A directive of the file that names a key of rule m (or all) and can cover line n:
\* an inline disable on line n itself, or a standalone disable at or before line n.
CoveredBy(m, n) ==
    \E j \in LineNos : \E k \in KeysOf(m) \cup {"all"} :
        \/ j = n /\ Inline(source[j], "disable", k)
        \/ j <= n /\ Standalone(source[j], "disable", k)

\* C3 (as claimed): per-rule isolation. An inline disable naming rule A on line L
\* suppresses A at L, and a finding of any rule at line n is suppressed only if a
\* directive naming that rule's id, its name or all covers n, whatever directives
\* other rules have elsewhere in the file.
C3_PerRuleIsolation ==
    dpc = "parsed" =>
        \A m \in Msgs : \A n \in 1..(Len(source) + 1) :
            /\ (n \in LineNos /\ \E k \in KeysOf(m) : Inline(source[n], "disable", k)) => is_msg_disabled(finder, Finding(m, n))
            /\ is_msg_disabled(finder, Finding(m, n)) => CoveredBy(m, n)

\* C7 (as claimed): block range for 'all'. With a standalone disable (all) at line D
\* opening the 'all' block and the next standalone enable (all) at line E > D, every
\* finding of any rule at D..E is suppressed, and a finding outside D..E that no
\* other directive covers is not suppressed.
C7_AllBlockRange ==
    dpc = "parsed" =>
        \A D \in LineNos : \A E \in LineNos :
            ( /\ D < E
              /\ OpensBlock("all", D)
              /\ Standalone(source[E], "enable", "all")
              /\ \A j \in (D + 1)..(E - 1) : ~Standalone(source[j], "enable", "all") )
            => \A m \in Msgs :
                /\ \A n \in D..E : is_msg_disabled(finder, Finding(m, n))
                /\ NoOtherDirective(m, {D, E}) => \A n \in (1..(Len(source) + 1)) \ (D..E) : ~is_msg_disabled(finder, Finding(m, n))

\* C10 (as claimed): whole-file-disabled determination. file_disabled is true iff
\* 'all' has exactly one closed block and it spans from the first line of the file
\* to the last; so a file whose first line is a standalone disable (all) with no
\* later standalone enable is whole-file-disabled.
C10_FileDisabled ==
    dpc = "parsed" =>
        /\ finder.file_disabled <=> (InRules(finder, "all") /\ Len(finder.lists[finder.rules["all"].blocks]) = 1 /\ finder.lists[finder.rules["all"].blocks][1] = <<1, Len(source)>>)
        /\ ( /\ Len(source) >= 1
             /\ Standalone(source[1], "disable", "all")
             /\ \A j \in 2..Len(source) : ~(source[j].hash /\ source[j].statement = "" /\ source[j].disabler = "enable") )
           => finder.file_disabled

\* C18: a read failure of the disabler fails open. When open() or a read raised
\* OSError, before the first line or after directive lines were parsed, the
\* construction is over with file_disabled and any_disabler false, and
\* is_msg_disabled answers false for every finding of the file.
C18_ReadFailureFailsOpen ==
    dpc = "oserror" =>
        /\ ~finder.file_disabled
        /\ ~finder.any_disabler
        /\ \A m \in Msgs : \A n \in 1..(MaxLines + 1) : ~is_msg_disabled(finder, Finding(m, n))

\* C18's case: the read failed after an inline disable and a standalone disable
\* had been parsed.
C18_Witness ==
    /\ dpc = "oserror"
    /\ \E k \in DOMAIN finder.rules : finder.sets[finder.rules[k].lines] # {}
    /\ \E k \in DOMAIN finder.rules : finder.rules[k].lastblock # -1

\* The line a step of the for loop of _parse_file reads.
LineRead == source'[Len(source')]
\* The blocks list of key k in a finder.
BlocksIn(d, k) == d.lists[d.rules[k].blocks]

\* C19 (as claimed): block disable is idempotent and inline enable is inert. In a
\* step that reads a line while a block is open for key k since line s: a
\* standalone disable naming k leaves k's state as it was (a line naming k alone
\* leaves the whole state as it was); an inline enable naming k leaves the state
\* as it was; a standalone enable naming k closes the block, and k's blocks are
\* then the blocks k had and the one block (s, this line).
C19_Step ==
    (dpc = "reading" /\ Len(source') = Len(source) + 1) =>
        \A k \in DOMAIN finder.rules :
            finder.rules[k].lastblock # -1 =>
                /\ Standalone(LineRead, "disable", k) =>
                    /\ finder'.rules[k] = finder.rules[k]
                    /\ BlocksIn(finder', k) = BlocksIn(finder, k)
                    /\ finder'.sets[finder'.rules[k].lines] = finder.sets[finder.rules[k].lines]
                    /\ Names(LineRead) = {k} => finder' = finder
                /\ Inline(LineRead, "enable", k) => finder' = finder
                /\ Standalone(LineRead, "enable", k) =>
                    /\ finder'.rules[k].lastblock = -1
                    /\ BlocksIn(finder', k) = Append(BlocksIn(finder, k), <<finder.rules[k].lastblock, Len(source')>>)
C19_BlockIdempotent == [][C19_Step]_vars

-----------------------------------------------------------------------------
\* The rule registry: Robocop.register_checker.

\* Rule names and rule ids are strings of one namespace (both are keys of self.rules).
RuleNames == {"line-too-long", "0501"}
RuleIds == {"0501", "0502"}
\* A rule as a checker declares it (checker.rules_map value), before registration.
DeclaredRules == [name : RuleNames, rule_id : RuleIds, enabled : {FALSE}]
\* rules_map: a dict keyed by rule name, in insertion order.
RulesMaps == { <<r>> : r \in DeclaredRules } \cup { rq \in DeclaredRules \X DeclaredRules : rq[1].name # rq[2].name }

\* Config.is_rule_enabled(rule): the configuration's include list, by rule id.
is_rule_enabled(cfg, rule) == rule.rule_id \in cfg.include

\* Robocop.any_rule_enabled: sets rule.enabled of every rule of the checker; the
\* checker with its rules_map updated.
any_rule_enabled_map(cfg, checker) == [checker EXCEPT !.rules_map = [i \in DOMAIN checker.rules_map |-> [checker.rules_map[i] EXCEPT !.enabled = is_rule_enabled(cfg, checker.rules_map[i])]]]
any_rule_enabled(cfg, checker) == \E i \in DOMAIN checker.rules_map : any_rule_enabled_map(cfg, checker).rules_map[i].enabled

\* dict item assignment
Put(f, k, v) == [x \in (DOMAIN f) \cup {k} |-> IF x = k THEN v ELSE f[x]]

\* The duplicate test of register_checker on a rule's id (lines 146-148), without it.
NoIdCheck(reg, rule) == FALSE
\* Line 146: rule.rule_id in self.rules
IdRegistered(reg, rule) == rule.rule_id \in DOMAIN reg

\* The for loop of register_checker (lines 142-150) from the i-th rule of rules_map
\* on: the registry it leaves and the error it raises ("none": the loop completed).
RECURSIVE register_rules(_, _, _)
register_rules(reg, checker, i) ==
    IF i > Len(checker.rules_map) THEN [rules |-> reg, error |-> "none"]
    ELSE LET rule == checker.rules_map[i]
             entry == [rule |-> rule, checker |-> checker.id]
         IN  IF rule.name \in DOMAIN reg THEN [rules |-> reg, error |-> "DuplicatedRuleError"]
             ELSE IF IdRegistered(reg, rule) THEN [rules |-> reg, error |-> "DuplicatedRuleError"]
             ELSE register_rules(Put(Put(reg, rule.name, entry), rule.rule_id, entry), checker, i + 1)

\* Robocop.register_checker(checker): the checker object after lines 140-141.
CheckerAfterEnable(cfg, checker) == [any_rule_enabled_map(cfg, checker) EXCEPT !.disabled = IF ~any_rule_enabled(cfg, checker) THEN TRUE ELSE @]

\* Robocop.register_checker
register_checker(cls, rules_map) ==
    /\ lastCall.n < MaxCalls
    /\ LET checker == CheckerAfterEnable(config, [id |-> lastCall.n + 1, cls |-> cls, rules_map |-> rules_map, disabled |-> FALSE])
           res == register_rules(rules, checker, 1)
       IN  /\ rules' = res.rules
           /\ checkers' = IF res.error = "none" THEN Append(checkers, checker) ELSE checkers
           /\ lastCall' = [made |-> TRUE, n |-> lastCall.n + 1, checker |-> checker, keys |-> DOMAIN rules, checkers |-> checkers, error |-> res.error]
    /\ UNCHANGED <<outVars, cfgVars, config, disVars, runVars>>

NextRegistry == \E rm \in RulesMaps : register_checker("Checker", rm)

\* Checkers are registered on a new Robocop object; nothing else is under way.
InitRegistryOnly ==
    /\ source = <<>> /\ lineno = -1 /\ finder = NewFinder /\ dpc = "idle"
    /\ config \in [include : SUBSET RuleIds, reports : {{}}]
    /\ rules = <<>> /\ checkers = <<>> /\ lastCall = NoCall
    /\ reports = <<>> /\ disabler = NoDisabler /\ disk = <<>> /\ files = <<>> /\ parsed_files = <<>> /\ imported = {}
    /\ idx = [i |-> 0, k |-> 0, j |-> 0] /\ scans = <<>> /\ lastReport = NoReport /\ rpc = "idle"
    /\ cpc = NoConfigure /\ lastConfig = NoDirective /\ accepted = <<>> /\ output = NoOutput

SpecRegistry == InitRegistryOnly /\ [][NextRegistry]_vars

\* C9: global uniqueness of rule keys. Every key of the registry maps to the one
\* (rule, checker) pair whose rule bears that key as its name or id, no two distinct
\* registered pairs share a name or an id, and a register_checker call for a checker
\* declaring a rule whose name or id was already a key raised DuplicatedRuleError
\* and did not append the checker.
RulePairs == {rules[k] : k \in DOMAIN rules}
KeysOfRule(r) == {r.name, r.rule_id}
C9_UniqueRuleKeys ==
    /\ \A k \in DOMAIN rules : k \in KeysOfRule(rules[k].rule)
    /\ \A p \in RulePairs : \A q \in RulePairs : p # q => KeysOfRule(p.rule) \cap KeysOfRule(q.rule) = {}
    /\ (lastCall.made /\ \E i \in DOMAIN lastCall.checker.rules_map : KeysOfRule(lastCall.checker.rules_map[i]) \cap lastCall.keys # {})
        => (lastCall.error = "DuplicatedRuleError" /\ checkers = lastCall.checkers)

\* C9's case: a second checker was rejected for a rule id an earlier, registered
\* checker owns under another rule name.
C9_Witness ==
    /\ lastCall.made /\ lastCall.error = "DuplicatedRuleError" /\ Len(checkers) >= 1
    /\ \E i \in DOMAIN lastCall.checker.rules_map :
        /\ lastCall.checker.rules_map[i].rule_id \in lastCall.keys
        /\ lastCall.checker.rules_map[i].name \notin lastCall.keys
        /\ \A h \in 1..(i - 1) : KeysOfRule(lastCall.checker.rules_map[h]) \cap lastCall.keys = {}

\* C20 (as claimed): a failed registration leaves the registry unchanged. After a
\* register_checker call that raised DuplicatedRuleError the registry holds exactly
\* the keys it held before the call, and every key of the registry belongs to a
\* checker of the checker list.
C20_FailedRegistrationFrame ==
    /\ (lastCall.made /\ lastCall.error = "DuplicatedRuleError") => DOMAIN rules = lastCall.keys
    /\ \A k \in DOMAIN rules : \E n \in DOMAIN checkers : checkers[n].id = rules[k].checker

-----------------------------------------------------------------------------
\* The reports (robocop/reports/reports.py) and Robocop.register_report.

\* A defaultdict(int) is the sequence of its <<key, count>> items in insertion
\* order (dict order).
HasKey(d, k) == \E n \in DOMAIN d : d[n][1] = k

\* defaultdict(int)[k] = 1 in place of += 1.
Inc_assign(d, k) == IF HasKey(d, k) THEN [n \in DOMAIN d |-> IF d[n][1] = k THEN <<k, 1>> ELSE d[n]] ELSE Append(d, <<k, 1>>)
\* defaultdict(int)[k] += 1
Inc(d, k) == IF HasKey(d, k) THEN [n \in DOMAIN d |-> IF d[n][1] = k THEN <<k, d[n][2] + 1>> ELSE d[n]] ELSE Append(d, <<k, 1>>)

\* RulesByIdReport.__init__ and RulesBySeverityReport.__init__
RulesByIdReport == [name |-> "rules_by_id", message_counter |-> <<>>]
RulesBySeverityReport == [name |-> "rules_by_error_type", severity_counter |-> <<>>]

\* message.get_fullname(): the rule's id and name composite, a string.
get_fullname(msg) == msg.rule_id \o msg.name

\* RulesByIdReport.add_message / RulesBySeverityReport.add_message
add_message(report, msg) ==
    IF report.name = "rules_by_id" THEN [report EXCEPT !.message_counter = Inc(@, get_fullname(msg))]
    ELSE [report EXCEPT !.severity_counter = Inc(@, msg.severity)]

\* sum(counter.values())
RECURSIVE SumCounts(_, _)
SumCounts(d, n) == IF n > Len(d) THEN 0 ELSE d[n][2] + SumCounts(d, n + 1)

\* A string whose characters matter is the sequence of its character codes; Space
\* is the code of ' ', below the code of every character of a rule id or name.
Space == 0
\* str < str: the first differing character decides, a proper prefix is smaller.
RECURSIVE StrLess(_, _)
StrLess(a, b) ==
    IF b = <<>> THEN FALSE
    ELSE IF a = <<>> THEN TRUE
    ELSE IF Head(a) # Head(b) THEN Head(a) < Head(b)
    ELSE StrLess(Tail(a), Tail(b))

\* sorted(..., key=itemgetter(1)) without reverse=True: an item goes behind the
\* items of a count not greater than its own.
StaysBefore_ascending(x, item) == x[2] <= item[2]
\* sorted(..., key=itemgetter(1), reverse=True) is stable: an item goes behind the
\* items of a count not smaller than its own.
StaysBefore(x, item) == x[2] >= item[2]

\* The sorted list with one more item put in its place.
RECURSIVE SortedInsert(_, _)
SortedInsert(sorted, item) ==
    IF sorted = <<>> THEN <<item>>
    ELSE IF StaysBefore(Head(sorted), item) THEN <<Head(sorted)>> \o SortedInsert(Tail(sorted), item)
    ELSE <<item>> \o sorted
\* Lines 19-21: the items of the counter from the n-th on, sorted into acc.
RECURSIVE SortedByCount(_, _, _)
SortedByCount(d, n, acc) == IF n > Len(d) THEN acc ELSE SortedByCount(d, n + 1, SortedInsert(acc, d[n]))

\* max(items, key=itemgetter(0)): the first item no other item's name is greater
\* than, from the n-th on, best so far at index m.
RECURSIVE MaxByName(_, _, _)
MaxByName(items, n, m) == IF n > Len(items) THEN items[m] ELSE MaxByName(items, n + 1, IF StrLess(items[m][1], items[n][1]) THEN n ELSE m)

\* f"{message:{width}}": the string, with spaces behind it up to the width.
RECURSIVE Pad(_, _)
Pad(str, width) == IF Len(str) >= width THEN str ELSE Pad(Append(str, Space), width)

\* RulesByIdReport.get_report: the report after the call and the text returned,
\* as its head and its lines (name field, count) or the one line of no issue.
get_report_by_id(report) ==
    LET message_counter_ordered == SortedByCount(report.message_counter, 1, <<>>)
        longest_name == Len(MaxByName(message_counter_ordered, 1, 1)[1])
    IN  IF message_counter_ordered = <<>>
        THEN [self |-> report, out |-> [head |-> "Issues by ids:", body |-> "No issues found", lines |-> <<>>]]
        ELSE [self |-> report, out |-> [head |-> "Issues by ids:", body |-> "lines", lines |-> [n \in DOMAIN message_counter_ordered |-> [name |-> Pad(message_counter_ordered[n][1], longest_name), count |-> message_counter_ordered[n][2]]]]]

\* RulesBySeverityReport.get_report: the report after the call and the text
\* returned, as the total it states and the (count, severity) parts that follow.
get_report_by_severity(report) ==
    LET issues_count == SumCounts(report.severity_counter, 1)
    IN  IF issues_count = 0
        THEN [self |-> report, out |-> [text |-> "Found 0 issues", found |-> 0, parts |-> <<>>]]
        ELSE [self |-> report, out |-> [text |-> "Found N issues", found |-> issues_count, parts |-> [n \in DOMAIN report.severity_counter |-> <<report.severity_counter[n][2], report.severity_counter[n][1]>>]]]

\* report.get_report()
get_report(report) == IF report.name = "rules_by_id" THEN get_report_by_id(report) ELSE get_report_by_severity(report)

\* Robocop.register_report
register_report(reps, cfg, report) == IF report.name \in cfg.reports THEN Append(reps, report) ELSE reps

\* reports.register(linter), called by Robocop.load_reports
load_reports(cfg) == register_report(register_report(<<>>, cfg, RulesByIdReport), cfg, RulesBySeverityReport)

\* The accepted findings of SpecReports: three rules whose full names are 4, 2 and
\* 3 characters long, the longest one the smallest in str order.
ReportMsgs == { [rule_id |-> <<1>>, name |-> <<5, 5, 5>>, severity |-> "W"], [rule_id |-> <<2>>, name |-> <<5>>, severity |-> "E"], [rule_id |-> <<3>>, name |-> <<5, 5>>, severity |-> "E"] }

\* Robocop.report, lines 112-113, for a finding that passed the filter.
AddMessage(msg) ==
    /\ Len(accepted) < MaxFindings
    /\ reports' = [n \in DOMAIN reports |-> add_message(reports[n], msg)]
    /\ accepted' = Append(accepted, msg)
    /\ output' = NoOutput
    /\ UNCHANGED <<cfgVars, disVars, regVars, disabler, disk, files, parsed_files, imported, idx, scans, lastReport, rpc>>

\* Robocop.make_reports: get_report of every report.
MakeReports ==
    /\ reports' = [n \in DOMAIN reports |-> get_report(reports[n]).self]
    /\ output' = [made |-> TRUE, before |-> reports, out |-> [n \in DOMAIN reports |-> get_report(reports[n]).out]]
    /\ UNCHANGED <<cfgVars, disVars, regVars, accepted, disabler, disk, files, parsed_files, imported, idx, scans, lastReport, rpc>>

NextReports == (\E msg \in ReportMsgs : AddMessage(msg)) \/ MakeReports

\* Both reference reports are selected and registered; no finding yet.
InitReportsOnly ==
    /\ source = <<>> /\ lineno = -1 /\ finder = NewFinder /\ dpc = "idle"
    /\ config = [include |-> {}, reports |-> {"rules_by_id", "rules_by_error_type"}]
    /\ rules = <<>> /\ checkers = <<>> /\ lastCall = NoCall
    /\ reports = load_reports(config)
    /\ disabler = NoDisabler /\ disk = <<>> /\ files = <<>> /\ parsed_files = <<>> /\ imported = {}
    /\ idx = [i |-> 0, k |-> 0, j |-> 0] /\ scans = <<>> /\ lastReport = NoReport /\ rpc = "idle"
    /\ cpc = NoConfigure /\ lastConfig = NoDirective /\ accepted = <<>> /\ output = NoOutput

SpecReports == InitReportsOnly /\ [][NextReports]_vars

\* C15: report totals agree with the accepted findings. The per-severity counts and
\* the per-rule counts both add up to the number of accepted findings; the text the
\* severity report returns states that total, and is 'Found 0 issues' iff it is
\* zero; a get_report call leaves every counter as it was.
C15_ReportTotals ==
    /\ SumCounts(reports[1].message_counter, 1) = Len(accepted)
    /\ SumCounts(reports[2].severity_counter, 1) = Len(accepted)
    /\ output.made =>
        /\ output.out[2].found = Len(accepted)
        /\ (output.out[2].text = "Found 0 issues") <=> (Len(accepted) = 0)
        /\ reports = output.before

\* C15's case: three findings of two rules were accepted, then the reports made.
C15_Witness == output.made /\ Len(accepted) = 3 /\ Len(reports[1].message_counter) = 2 /\ output.out[2].found = 3

\* The full names that received a finding.
CountedNames == { get_fullname(accepted[n]) : n \in DOMAIN accepted }
\* A name field without the spaces behind the name.
RECURSIVE Unpad(_)
Unpad(str) == IF str # <<>> /\ str[Len(str)] = Space THEN Unpad(SubSeq(str, 1, Len(str) - 1)) ELSE str

\* C16: RulesByIdReport.get_report returns one line per full name that received a
\* finding and no other line, the lines in non-increasing order of count, and
\* 'No issues found' (no line) when no finding was added.
C16_LinesPerRule ==
    output.made =>
        LET lines == output.out[1].lines
        IN  /\ (accepted = <<>>) => (output.out[1].body = "No issues found" /\ lines = <<>>)
            /\ (accepted # <<>>) => output.out[1].body # "No issues found"
            /\ Len(lines) = Cardinality(CountedNames)
            /\ \A f \in CountedNames : \E n \in DOMAIN lines : Unpad(lines[n].name) = f
            /\ \A n \in DOMAIN lines : \A m \in DOMAIN lines : n < m => lines[n].count >= lines[m].count

\* C16's case: a rule that got its findings later got more of them than the rule
\* counted first, and is the first line.
C16_Witness ==
    /\ output.made /\ Len(output.out[1].lines) >= 2
    /\ reports[1].message_counter[1][2] < reports[1].message_counter[2][2]
    /\ Unpad(output.out[1].lines[1].name) = reports[1].message_counter[2][1]

\* C17 (as claimed): common padding width. Every name field of the lines
\* RulesByIdReport.get_report returns is as wide as the longest full name among the
\* counted rules.
C17_CommonWidth ==
    output.made =>
        \A n \in DOMAIN output.out[1].lines :
            /\ \A f \in CountedNames : Len(output.out[1].lines[n].name) >= Len(f)
            /\ \E f \in CountedNames : Len(output.out[1].lines[n].name) = Len(f)

-----------------------------------------------------------------------------
\* The scan pipeline: what a run starts from (files on disk, checkers, configuration).

\* The discovered files, in discovery order.
Paths == 1..NFiles

\* File names: Path.name and Path.suffix.
FileNames == { [name |-> "__init__.robot", suffix |-> ".robot"], [name |-> "suite.robot", suffix |-> ".robot"], [name |-> "keywords.resource", suffix |-> ".resource"], [name |-> "KEYWORDS.RESOURCE", suffix |-> ".RESOURCE"], [name |-> "__init__.resource", suffix |-> ".resource"] }
\* '__init__' in file.source.name
HasInit(fname) == fname.name \in {"__init__.robot", "__init__.resource"}
\* str.lower on a suffix
Lower(sfx) == IF sfx = ".RESOURCE" THEN ".resource" ELSE sfx

\* The texts of the scanned files: no directive; a standalone `# robocop: disable`
\* on the first line.
RunTexts == { <<PlainLine>>, <<[hash |-> TRUE, statement |-> "", disabler |-> "disable", rules |-> <<>>], PlainLine>> }
NotRead == <<>>

\* DisablersFinder(source, linter) of a readable file with the lines src.
RECURSIVE ParseLines(_, _, _)
ParseLines(d, src, i) == IF i > Len(src) THEN d ELSE ParseLines(ParseFileStep(d, src[i], i), src, i + 1)
DisablersFinder(src) == ParseFileEnd(ParseLines(NewFinder, src, 1), IF Len(src) = 0 THEN -1 ELSE Len(src))

\* The attributes of a DisablersFinder object: those __init__ sets and the methods
\* of the class body (disablers.py 20-123).
DisablersFinderAttrs == {"linter", "file_disabled", "any_disabler", "disabler_pattern", "rules", "is_msg_disabled", "is_line_disabled", "_parse_file", "_parse_line", "_is_file_disabled", "_add_inline_disabler", "_start_block", "_end_block", "_end_all_blocks"}

\* The checkers checkers.init(linter) registers, as declared: a rule checker and the
\* parse-validity checker.
BuiltinCheckers == <<
    [cls |-> "LengthChecker", rules_map |-> <<[name |-> "rule-a", rule_id |-> "0101", severity |-> "W", enabled |-> FALSE, configurable |-> {"line_length"}], [name |-> "rule-b", rule_id |-> "0202", severity |-> "E", enabled |-> FALSE, configurable |-> {}]>>],
    [cls |-> "ParsingErrorChecker", rules_map |-> <<[name |-> "parsing-error", rule_id |-> "0401", severity |-> "E", enabled |-> FALSE, configurable |-> {}]>>] >>

\* A checker class declaring a rule under an id the LengthChecker's rule-a bears.
DuplicateChecker == [cls |-> "OtherChecker", rules_map |-> <<[name |-> "rule-c", rule_id |-> "0101", severity |-> "W", enabled |-> FALSE, configurable |-> {}]>>]
\* The checker classes checkers.init finds, in the order it registers them.
CheckerSets == {BuiltinCheckers, Append(BuiltinCheckers, DuplicateChecker)}

\* Robocop.load_checkers: register_checker on each checker of decl, from the i-th
\* on, up to the first call that raises.
RECURSIVE load_checkers(_, _, _, _, _)
load_checkers(cfg, reg, cs, decl, i) ==
    IF i > Len(decl) THEN [rules |-> reg, checkers |-> cs, raised |-> "none"]
    ELSE LET checker == CheckerAfterEnable(cfg, [id |-> i, cls |-> decl[i].cls, rules_map |-> decl[i].rules_map, disabled |-> FALSE, parse_only_section_not_allowed |-> FALSE, settings |-> <<>>])
             res == register_rules(reg, checker, 1)
         IN  IF res.error # "none" THEN [rules |-> res.rules, checkers |-> cs, raised |-> res.error]
             ELSE load_checkers(cfg, res.rules, Append(cs, checker), decl, i + 1)

\* The root paths of a configuration: a directory that holds the NFiles files, a
\* path that does not exist.
PathLists == { <<>>, <<"tests">>, <<"nosuch">>, <<"tests", "nosuch">> }
\* The directive of a run that has one: it names no param and no value.
RunDirective == <<"0101">>

\* The configurations of the runs.
RunConfigs == [include : {{"0101"}, {"0101", "0401"}}, reports : {{"rules_by_error_type"}, {"rules_by_id", "rules_by_error_type"}}, configure : {<<>>, <<RunDirective>>}, paths : PathLists]

-----------------------------------------------------------------------------
\* Robocop.configure_checkers_or_reports.

\* A directive of config.configure, as the fields config.split(':') gives: the
\* directive holds Len - 1 colons.
Directives == { <<"0101">>, <<"0101", "severity">>, <<"0101", "severity", "E">>, <<"rule-a", "severity", "E">>, <<"0202", "severity", "I">>, <<"rule-a", "line_length", "140">>, <<"rule-a", "line_length", "140", "x">>, <<"rule-b", "line_length", "140">>, <<"0000", "severity", "E">>, <<"rules_by_id", "severity", "E">> }
\* config.count(':')
CountColons(d) == Len(d) - 1

\* The lists of directives of a configuration, up to MaxDirectives long.
RECURSIVE DirectiveLists(_)
DirectiveLists(n) == IF n = 0 THEN {<<>>} ELSE DirectiveLists(n - 1) \cup { Append(l, d) : l \in { x \in DirectiveLists(n - 1) : Len(x) = n - 1 }, d \in Directives }

\* The Robocop object as the loop reads and writes it.
Linter(reg, cs, reps) == [rules |-> reg, checkers |-> cs, reports |-> reps, raised |-> "none"]

\* Rule.change_severity(value): rewrites the rule's severity in place; the rule.
change_severity(rule, value) == [rule EXCEPT !.severity = value]

\* Rule.get_configurable(param): the configurable of that name, or None.
get_configurable(rule, param) == IF param \in rule.configurable THEN <<param, param, "int">> ELSE "None"

\* configurable[2](value): the parameter's parsing function on the value.
ParseValue(conv, value) == IF conv = "int" /\ value = "140" THEN 140 ELSE value

\* The attributes of the report objects: those __init__ sets and the methods of
\* the class bodies (reports.py 10-46).
ReportAttrs(rep) == IF rep.name = "rules_by_id" THEN {"name", "message_counter", "add_message", "get_report"} ELSE {"name", "severity_counter", "add_message", "get_report"}

\* Lines 149-150 store one rule object under the rule's name and under its id, and
\* checker.rules_map holds the same object: the registry entries that hold the
\* object of self.rules[key].
HoldsRuleOf(st, key, k) == st.rules[k].checker = st.rules[key].checker /\ st.rules[k].rule.name = st.rules[key].rule.name

\* Line 198 as if change_severity returned a changed copy: only the entry of the
\* key the directive names shows the new severity.
configure_severity_copy(st, key, value) == [st EXCEPT !.rules[key].rule = change_severity(@, value)]
\* Lines 196-198: msg.change_severity(value) writes to the rule object, which every
\* holder of the object reads; the entry of the key is assigned (msg, checker).
configure_severity(st, key, value) ==
    LET msg == change_severity(st.rules[key].rule, value)
        c == st.rules[key].checker
    IN  [st EXCEPT !.rules = [k \in DOMAIN st.rules |-> IF HoldsRuleOf(st, key, k) \/ k = key THEN [rule |-> msg, checker |-> c] ELSE st.rules[k]],
                   !.checkers = [n \in DOMAIN st.checkers |-> IF st.checkers[n].id = c THEN [st.checkers[n] EXCEPT !.rules_map = [i \in DOMAIN @ |-> IF @[i].name = msg.name THEN msg ELSE @[i]]] ELSE st.checkers[n]]]

\* Lines 200-204: a configurable parameter of the rule, handed to checker.configure.
configure_param(st, key, param, value) ==
    LET configurable == get_configurable(st.rules[key].rule, param)
        c == st.rules[key].checker
    IN  IF configurable = "None" THEN [st EXCEPT !.raised = "ConfigGeneralError"]
        ELSE [st EXCEPT !.checkers = [n \in DOMAIN st.checkers |-> IF st.checkers[n].id = c THEN [st.checkers[n] EXCEPT !.settings = Put(@, configurable[2], ParseValue(configurable[3], value))] ELSE st.checkers[n]]]

\* Lines 206-208: report.configure(param, value, *values) on every report of that
\* name, from the i-th on; the call looks up the attribute configure on the report.
RECURSIVE configure_reports(_, _, _)
configure_reports(st, d, i) ==
    IF i > Len(st.reports) THEN st
    ELSE IF st.reports[i].name # d[1] THEN configure_reports(st, d, i + 1)
    ELSE IF "configure" \notin ReportAttrs(st.reports[i]) THEN [st EXCEPT !.raised = "AttributeError"]
    ELSE configure_reports(st, d, i + 1)

\* The body of the for loop of configure_checkers_or_reports, lines 191-211.
configure_one(st, d) ==
    IF CountColons(d) < 2 THEN [st EXCEPT !.raised = "ConfigGeneralError"]
    ELSE IF d[1] \in DOMAIN st.rules
         THEN IF d[2] = "severity" THEN configure_severity(st, d[1], d[3]) ELSE configure_param(st, d[1], d[2], d[3])
         ELSE IF \E i \in DOMAIN st.reports : d[1] = st.reports[i].name THEN configure_reports(st, d, 1)
         ELSE [st EXCEPT !.raised = "ConfigGeneralError"]

\* configure_checkers_or_reports: the loop from the i-th directive on, up to the
\* first directive that raises.
RECURSIVE configure_all(_, _, _)
configure_all(st, ds, i) == IF i > Len(ds) \/ st.raised # "none" THEN st ELSE configure_all(configure_one(st, ds[i]), ds, i + 1)

\* One iteration of `for config in self.config.configure`.
ConfigureDirective ==
    /\ cpc.raised = "none"
    /\ cpc.i <= Len(config.configure)
    /\ LET d == config.configure[cpc.i]
           before == Linter(rules, checkers, reports)
           after == configure_one(before, d)
       IN  /\ rules' = after.rules
           /\ checkers' = after.checkers
           /\ reports' = after.reports
           /\ cpc' = [i |-> cpc.i + 1, raised |-> after.raised]
           /\ lastConfig' = [made |-> TRUE, directive |-> d, before |-> before, raised |-> after.raised]
    /\ UNCHANGED <<outVars, disVars, config, lastCall, disabler, disk, files, parsed_files, imported, idx, scans, lastReport, rpc>>

\* The loop is over: configure_checkers_or_reports and Robocop.__init__ return.
ConfigureReturns ==
    /\ cpc.raised = "none"
    /\ cpc.i = Len(config.configure) + 1
    /\ rpc = "init"
    /\ rpc' = "start"
    /\ UNCHANGED <<outVars, cfgVars, disVars, regVars, reports, disabler, disk, files, parsed_files, imported, idx, scans, lastReport>>

NextConfigure == ConfigureDirective \/ ConfigureReturns

\* The configurations of SpecConfigure.
ConfigureConfigs == [include : {{"0101"}}, reports : {{}, {"rules_by_id"}}, configure : DirectiveLists(MaxDirectives), paths : {<<>>}]

\* Robocop.__init__ has loaded the checkers and the reports and enters
\* configure_checkers_or_reports.
InitConfigureOnly ==
    /\ source = <<>> /\ lineno = -1 /\ finder = NewFinder /\ dpc = "idle"
    /\ config \in ConfigureConfigs
    /\ rules = load_checkers(config, <<>>, <<>>, BuiltinCheckers, 1).rules
    /\ checkers = load_checkers(config, <<>>, <<>>, BuiltinCheckers, 1).checkers
    /\ lastCall = NoCall
    /\ reports = load_reports(config)
    /\ disabler = NoDisabler /\ disk = <<>> /\ files = <<>> /\ parsed_files = <<>> /\ imported = {}
    /\ idx = [i |-> 0, k |-> 0, j |-> 0] /\ scans = <<>> /\ lastReport = NoReport /\ rpc = "init"
    /\ cpc = [i |-> 1, raised |-> "none"] /\ lastConfig = NoDirective /\ accepted = <<>> /\ output = NoOutput

SpecConfigure == InitConfigureOnly /\ [][NextConfigure]_vars

\* C12 (as claimed): a directive raises ConfigGeneralError exactly when it holds
\* fewer than two colons, or its target is neither a key of the rule registry nor
\* the name of a selected report, or its target is a rule and its param is neither
\* 'severity' nor a configurable parameter of the rule; any other directive raises
\* nothing.
Malformed(d) == CountColons(d) < 2
UnknownTarget(st, d) == d[1] \notin DOMAIN st.rules /\ ~\E i \in DOMAIN st.reports : st.reports[i].name = d[1]
UnknownParam(st, d) == d[1] \in DOMAIN st.rules /\ d[2] # "severity" /\ d[2] \notin st.rules[d[1]].rule.configurable
C12_ConfigErrors ==
    lastConfig.made =>
        LET d == lastConfig.directive
            st == lastConfig.before
        IN  IF Malformed(d) \/ UnknownTarget(st, d) \/ UnknownParam(st, d)
            THEN lastConfig.raised = "ConfigGeneralError"
            ELSE lastConfig.raised = "none"

\* C13: severity override frame. After a directive <rule>:severity:<value> naming a
\* registered rule by its id or by its name was applied, the rule has that severity
\* when looked up under its id and under its name, both keys still map to the
\* checker they mapped to, and every other key of the registry maps to what it
\* mapped to before (the registry has the same keys).
C13_SeverityFrame ==
    (lastConfig.made /\ lastConfig.raised = "none" /\ lastConfig.directive[2] = "severity" /\ lastConfig.directive[1] \in DOMAIN lastConfig.before.rules) =>
        LET d == lastConfig.directive
            was == lastConfig.before.rules
            r == was[d[1]].rule
        IN  /\ DOMAIN rules = DOMAIN was
            /\ rules[r.rule_id].rule.severity = d[3] /\ rules[r.name].rule.severity = d[3]
            /\ rules[r.rule_id].rule = rules[r.name].rule
            /\ rules[r.rule_id].checker = was[r.rule_id].checker /\ rules[r.name].checker = was[r.name].checker
            /\ \A k \in DOMAIN was \ {r.rule_id, r.name} : rules[k] = was[k]

\* C13's case: the directive rule-a:severity:E, which names the rule by its name,
\* was applied to a registry where the rule had severity W under its id.
C13_Witness ==
    /\ lastConfig.made /\ lastConfig.raised = "none"
    /\ lastConfig.directive = <<"rule-a", "severity", "E">>
    /\ lastConfig.before.rules["0101"].rule.severity = "W"
    /\ rules["0101"].rule.severity = "E"

-----------------------------------------------------------------------------
\* The scan pipeline: the files, the findings and the run.

\* RobotFile(file)
RobotFile == [type |-> "None", scanned_with_type |-> "None"]

\* FileTypeChecker.visit(model): every discovered file a resource import of the
\* visited file refers to becomes a RESOURCE file.
FileTypeChecker_visit(fs, imps) == [g \in DOMAIN fs |-> IF g \in imps THEN [fs[g] EXCEPT !.type = "RESOURCE"] ELSE fs[g]]

\* The type recognize_file_type gives by the file's name (lines 56-61).
TypeByName(fname) == IF HasInit(fname) THEN "INIT" ELSE IF Lower(fname.suffix) = ".resource" THEN "RESOURCE" ELSE "GENERAL"

\* Robocop.recognize_file_type
recognize_file_type(fs, f, fname, imps) == FileTypeChecker_visit([fs EXCEPT ![f].type = TypeByName(fname)], imps)

\* isinstance(checker, ParsingErrorChecker)
IsParsingErrorChecker(checker) == checker.cls = "ParsingErrorChecker"

\* Line 95 without its test: every parsed file is taken as changed.
AlwaysChanged(robot_file) == TRUE
\* Line 95, negated: the file's type is not the one it was scanned with.
TypeChanged(robot_file) == robot_file.scanned_with_type # robot_file.type

\* What a scan_file call of checker c on file f hands to linter.report: nothing, or
\* a finding of one of the checker's rules.
RunLines == {1}
FindingsOf(c, f) == { [source |-> f, line |-> l, rule_id |-> c.rules_map[i].rule_id, name |-> c.rules_map[i].name, severity |-> c.rules_map[i].severity, enabled |-> c.rules_map[i].enabled] : i \in DOMAIN c.rules_map, l \in RunLines }
Emits(c, f) == {<<>>} \cup { <<m>> : m \in FindingsOf(c, f) }

\* Robocop.report(rule_msg): what it raises, the reports after it, the reports
\* add_message was called on and whether log_message wrote a line. Line 110 looks up
\* the attribute is_rule_disabled on self.disabler, a DisablersFinder: the lookup
\* raises AttributeError when the class has no such attribute; lines 112-120 follow
\* a lookup that succeeds and a test that answers "not disabled".
report(reps, dis, rule_msg) ==
    IF ~rule_msg.enabled THEN [raised |-> "none", reports |-> reps, added |-> <<>>, logged |-> FALSE]
    ELSE IF "is_rule_disabled" \notin DisablersFinderAttrs THEN [raised |-> "AttributeError", reports |-> reps, added |-> <<>>, logged |-> FALSE]
    ELSE IF is_msg_disabled(dis.finder, [msg_id |-> rule_msg.rule_id, name |-> rule_msg.name, line |-> rule_msg.line]) THEN [raised |-> "none", reports |-> reps, added |-> <<>>, logged |-> FALSE]
    ELSE [raised |-> "none", reports |-> [i \in DOMAIN reps |-> add_message(reps[i], rule_msg)], added |-> [i \in DOMAIN reps |-> reps[i].name], logged |-> TRUE]

\* The findings of one scan_file call (at most one here) go through report.
Reported(emit) == IF emit = <<>> THEN [raised |-> "none", reports |-> reports, added |-> <<>>, logged |-> FALSE] ELSE report(reports, disabler, emit[1])
ReportCall(emit) == IF emit = <<>> THEN lastReport ELSE [made |-> TRUE, msg |-> emit[1], disabler_file |-> disabler.file, raised |-> Reported(emit).raised, added |-> Reported(emit).added, logged |-> Reported(emit).logged]

NoScans == [count |-> [fk \in Paths \X DOMAIN BuiltinCheckers |-> 0], rescans |-> {}]

\* Path.exists() of a root path.
Exists(path) == path = "tests"

\* Line 168 without the raise: a path that does not exist yields nothing.
get_absolute_path_skip(path) == IF ~Exists(path) THEN [files |-> <<>>, raised |-> "none"] ELSE [files |-> [n \in 1..NFiles |-> n], raised |-> "none"]
\* Robocop.get_absolute_path(path, recursive): what it raises, the files it yields.
get_absolute_path(path) == IF ~Exists(path) THEN [files |-> <<>>, raised |-> "FileError"] ELSE [files |-> [n \in 1..NFiles |-> n], raised |-> "none"]

\* Robocop.get_files, consumed to its end by the dict comprehension of line 72:
\* the files yielded for the paths from the i-th on, or what a path raised.
RECURSIVE get_files(_, _, _)
get_files(paths, i, acc) ==
    IF i > Len(paths) THEN [files |-> acc, raised |-> "none"]
    ELSE IF get_absolute_path(paths[i]).raised # "none" THEN [files |-> acc, raised |-> get_absolute_path(paths[i]).raised]
    ELSE get_files(paths, i + 1, acc \o get_absolute_path(paths[i]).files)

\* run_robocop: a Robocop object is about to be constructed.
Init ==
    /\ source = <<>> /\ lineno = -1 /\ finder = NewFinder /\ dpc = "idle"
    /\ config \in RunConfigs
    /\ rules = <<>>
    /\ checkers = <<>>
    /\ lastCall = NoCall
    /\ reports = <<>>
    /\ disabler = NoDisabler
    /\ disk = <<>>
    /\ files = <<>>
    /\ parsed_files = <<>>
    /\ imported = {}
    /\ idx = [i |-> 0, k |-> 0, j |-> 0]
    /\ scans = NoScans
    /\ lastReport = NoReport
    /\ rpc = "init"
    /\ cpc = NoConfigure
    /\ lastConfig = NoDirective
    /\ accepted = <<>>
    /\ output = NoOutput

\* Robocop.__init__, lines 26-29, with the checker classes decl: load_checkers,
\* load_reports, configure_checkers_or_reports; what one of them raises ends it.
Construct(decl) ==
    /\ rpc = "init"
    /\ LET loaded == load_checkers(config, <<>>, <<>>, decl, 1)
           st == IF loaded.raised # "none" THEN [Linter(loaded.rules, loaded.checkers, <<>>) EXCEPT !.raised = loaded.raised]
                 ELSE configure_all(Linter(loaded.rules, loaded.checkers, load_reports(config)), config.configure, 1)
       IN  /\ rules' = st.rules
           /\ checkers' = st.checkers
           /\ reports' = st.reports
           /\ rpc' = IF st.raised # "none" THEN st.raised ELSE "start"
    /\ UNCHANGED <<outVars, cfgVars, disVars, config, lastCall, disabler, disk, files, parsed_files, imported, idx, scans, lastReport>>

\* run_checks, lines 69-74: no path given / a root path raises / the files are
\* discovered, all of them, before the loop of line 75 starts.
GetFiles ==
    /\ rpc = "start"
    /\ LET found == get_files(config.paths, 1, <<>>)
       IN  IF config.paths = <<>> THEN rpc' = "exit" /\ UNCHANGED <<files, disk, idx>>
           ELSE IF found.raised # "none" THEN rpc' = found.raised /\ UNCHANGED <<files, disk, idx>>
           ELSE /\ files' = [f \in {found.files[n] : n \in DOMAIN found.files} |-> RobotFile]
                /\ disk' = [f \in {found.files[n] : n \in DOMAIN found.files} |-> NotRead]
                /\ idx' = [idx EXCEPT !.i = 1]
                /\ rpc' = "main"
    /\ UNCHANGED <<outVars, cfgVars, disVars, regVars, reports, disabler, parsed_files, imported, scans, lastReport>>

\* run_checks, lines 75-83, for the file at idx.i, which is named fname, holds the
\* resource imports imps and the lines text.
VisitFile(fname, imps, text) ==
    /\ rpc = "main"
    /\ idx.i \in DOMAIN files
    /\ LET f == idx.i
           d == [file |-> f, finder |-> DisablersFinder(text)]
           fs == recognize_file_type(files, f, fname, imps)
       IN  /\ disabler' = d
           /\ disk' = [disk EXCEPT ![f] = text]
           /\ IF d.finder.file_disabled
              THEN /\ idx' = [idx EXCEPT !.i = f + 1]
                   /\ UNCHANGED <<files, parsed_files, imported, rpc>>
              ELSE /\ files' = [fs EXCEPT ![f].scanned_with_type = fs[f].type]
                   /\ parsed_files' = Append(parsed_files, f)
                   /\ imported' = imported \cup ((imps \cap Paths) \ {f})
                   /\ idx' = [idx EXCEPT !.k = 1]
                   /\ rpc' = "scan"
    /\ UNCHANGED <<outVars, cfgVars, disVars, regVars, reports, scans, lastReport>>

\* run_checks, lines 84-88, for the checker at idx.k.
ScanFile(emit) ==
    /\ rpc = "scan"
    /\ LET f == idx.i
           k == idx.k
           last == (k = Len(checkers))
           out == Reported(emit)
       IN  /\ IF checkers[k].disabled
              THEN emit = <<>> /\ UNCHANGED scans
              ELSE emit \in Emits(checkers[k], f) /\ scans' = [scans EXCEPT !.count[<<f, k>>] = @ + 1]
           /\ reports' = out.reports
           /\ lastReport' = ReportCall(emit)
           /\ accepted' = IF out.added # <<>> THEN Append(accepted, emit[1]) ELSE accepted
           /\ idx' = IF last THEN [idx EXCEPT !.i = f + 1, !.k = 0] ELSE [idx EXCEPT !.k = k + 1]
           /\ rpc' = IF out.raised # "none" THEN out.raised ELSE IF last THEN "main" ELSE "scan"
    /\ UNCHANGED <<output, cfgVars, disVars, regVars, disabler, disk, files, parsed_files, imported>>

\* run_checks, line 89: the main loop is over.
EndMainPass ==
    /\ rpc = "main"
    /\ idx.i \notin DOMAIN files
    /\ idx' = [idx EXCEPT !.j = 1]
    /\ rpc' = "rescan"
    /\ UNCHANGED <<outVars, cfgVars, disVars, regVars, reports, disabler, disk, files, parsed_files, imported, scans, lastReport>>

\* The first ParsingErrorChecker of self.checkers (0: none).
RECURSIVE FirstParsingErrorChecker(_)
FirstParsingErrorChecker(i) == IF i > Len(checkers) THEN 0 ELSE IF IsParsingErrorChecker(checkers[i]) THEN i ELSE FirstParsingErrorChecker(i + 1)

\* run_checks_on_files_with_type_changed, lines 94-100, for the file at idx.j.
RescanFile(emit) ==
    /\ rpc = "rescan"
    /\ FirstParsingErrorChecker(1) # 0
    /\ idx.j <= Len(parsed_files)
    /\ LET f == parsed_files[idx.j]
           k == FirstParsingErrorChecker(1)
           out == Reported(emit)
       IN  /\ IF ~TypeChanged(files[f])
              THEN emit = <<>> /\ UNCHANGED <<scans, checkers>>
              ELSE /\ emit \in Emits(checkers[k], f)
                   /\ checkers' = [checkers EXCEPT ![k].parse_only_section_not_allowed = TRUE]
                   /\ scans' = [scans EXCEPT !.count[<<f, k>>] = @ + 1, !.rescans = @ \cup {[file |-> f, checker |-> k, grammar |-> files[f].type]}]
           /\ reports' = out.reports
           /\ lastReport' = ReportCall(emit)
           /\ accepted' = IF out.added # <<>> THEN Append(accepted, emit[1]) ELSE accepted
           /\ idx' = [idx EXCEPT !.j = @ + 1]
           /\ rpc' = IF out.raised # "none" THEN out.raised ELSE "rescan"
    /\ UNCHANGED <<output, cfgVars, disVars, config, rules, lastCall, disabler, disk, files, parsed_files, imported>>

\* run_checks_on_files_with_type_changed returns.
EndRescan ==
    /\ rpc = "rescan"
    /\ FirstParsingErrorChecker(1) = 0 \/ idx.j > Len(parsed_files)
    /\ rpc' = "done"
    /\ UNCHANGED <<outVars, cfgVars, disVars, regVars, reports, disabler, disk, files, parsed_files, imported, idx, scans, lastReport>>



Next ==
    \/ \E decl \in CheckerSets : Construct(decl)
    \/ GetFiles
    \/ \E fname \in FileNames : \E imps \in SUBSET (1..(NFiles + 1)) : \E text \in RunTexts : VisitFile(fname, imps, text)
    \/ \E emit \in {<<>>} \cup UNION { Emits(checkers[i], idx.i) : i \in DOMAIN checkers } : ScanFile(emit)
    \/ EndMainPass
    \/ \E emit \in {<<>>} \cup UNION { Emits(checkers[i], f) : i \in DOMAIN checkers, f \in Paths } : RescanFile(emit)
    \/ EndRescan

Spec == Init /\ [][Next]_vars

-----------------------------------------------------------------------------
\* Properties of the scan pipeline.

ParsedFiles == {parsed_files[n] : n \in DOMAIN parsed_files}
MainPassOver == rpc \in {"rescan", "done"}

\* C4 (as claimed): order-independent resource classification. When the main pass
\* is over, every processed file that a resource import of another processed file
\* refers to has type RESOURCE, whichever of the two was discovered first.
C4_ResourceClassification == MainPassOver => \A f \in ParsedFiles : f \in imported => files[f].type = "RESOURCE"

\* C5: the corrective re-scan is exact and narrow. When run_checks has returned, the
\* re-scanned files are exactly the scanned files whose final type differs from
\* scanned_with_type; every re-scan is by the ParsingErrorChecker, on the grammar of
\* the file's final type; and every other checker's scan_file is called at most
\* once per file over the whole run.
C5_CorrectiveRescan ==
    /\ rpc = "done" => {r.file : r \in scans.rescans} = {f \in ParsedFiles : files[f].type # files[f].scanned_with_type}
    /\ \A r \in scans.rescans : checkers[r.checker].cls = "ParsingErrorChecker" /\ r.grammar = files[r.file].type /\ r.file \in ParsedFiles
    /\ \A f \in Paths : \A k \in DOMAIN checkers : checkers[k].cls # "ParsingErrorChecker" => scans.count[<<f, k>>] <= 1

\* C5's case: the run is over, one file was re-scanned after every checker scanned
\* it under its first type, and another scanned file was not re-scanned.
C5_Witness ==
    /\ rpc = "done"
    /\ \E r \in scans.rescans : files[r.file].scanned_with_type = "GENERAL" /\ r.grammar = "RESOURCE" /\ \A k \in DOMAIN checkers : scans.count[<<r.file, k>>] >= 1
    /\ \E f \in ParsedFiles : f \notin {r.file : r \in scans.rescans}

\* C6 (as claimed): findings are filtered by their own file's directives. Every
\* finding report tests for suppression, those of the corrective re-scan included,
\* is tested against the DisablersFinder built from the finding's own file.
C6_OwnFileDirectives == (lastReport.made /\ lastReport.msg.enabled) => lastReport.disabler_file = lastReport.msg.source

\* C8 (as claimed): the report filter. A finding whose rule is enabled and which its
\* file's disabler does not suppress gets add_message called once on each selected
\* report (and a line written); any other finding reaches no report and no line.
C8_ReportFilter ==
    lastReport.made =>
        LET m == lastReport.msg
            suppressed == is_msg_disabled(DisablersFinder(disk[m.source]), [msg_id |-> m.rule_id, name |-> m.name, line |-> m.line])
        IN  IF m.enabled /\ ~suppressed
            THEN lastReport.raised = "none" /\ lastReport.added = [i \in DOMAIN reports |-> reports[i].name] /\ lastReport.logged
            ELSE lastReport.added = <<>> /\ ~lastReport.logged

\* C11 (as claimed): disabled checkers are never scanned. A checker's disabled flag
\* is true iff none of its rules is enabled by the configuration, and no scan_file
\* call of the run, main pass or corrective re-scan, is on a checker whose disabled
\* flag is true.
C11_DisabledNeverScanned ==
    /\ \A k \in DOMAIN checkers : checkers[k].disabled <=> ~\E i \in DOMAIN checkers[k].rules_map : is_rule_enabled(config, checkers[k].rules_map[i])
    /\ \A f \in Paths : \A k \in DOMAIN checkers : scans.count[<<f, k>>] > 0 => ~checkers[k].disabled

\* C14: fatal errors precede all scanning. NothingProcessed: no file's disabler was
\* built, no scan_file call was made, no finding went to report. Once run_checks is
\* past discovery with a root path of the configuration that does not exist (also
\* one that follows valid paths), FileError was raised and nothing was processed;
\* DuplicatedRuleError and ConfigGeneralError end the construction of Robocop, with
\* no file discovered and nothing processed.
NothingProcessed == disabler = NoDisabler /\ scans = NoScans /\ ~lastReport.made /\ parsed_files = <<>> /\ \A n \in DOMAIN reports : reports[n] \in {RulesByIdReport, RulesBySeverityReport}
HasMissingPath == \E n \in DOMAIN config.paths : ~Exists(config.paths[n])
C14_FatalErrorsFirst ==
    /\ (HasMissingPath /\ rpc \notin {"init", "start", "DuplicatedRuleError", "ConfigGeneralError"}) => rpc = "FileError"
    /\ rpc = "FileError" => NothingProcessed
    /\ rpc \in {"DuplicatedRuleError", "ConfigGeneralError"} => (NothingProcessed /\ files = <<>>)

\* C14's case: the missing root path follows a valid one, and FileError was raised.
C14_Witness == rpc = "FileError" /\ config.paths = <<"tests", "nosuch">>
====
